---- MODULE Spec2Model ----
(***************************************************************************)
(* Model of app.py: extract_frames (lines 17-49) and the part of the       *)
(* Streamlit script that calls it and lists its output (lines 72-96).      *)
(*                                                                         *)
(* The decoder (cv2.VideoCapture) and the image writer (cv2.imwrite) are   *)
(* the environment.  A source is described by whether it opens, the frame  *)
(* rate it reports and the number of frames it yields before end of        *)
(* stream.  cv2.imwrite has three outcomes: the file is written, the write *)
(* fails and imwrite returns False without raising, or an exception is     *)
(* raised.                                                                 *)
(*                                                                         *)
(* The reported frame rate is a Python float; it is modelled as an exact   *)
(* rational <<numerator, denominator>> with denominator > 0.               *)
(***************************************************************************)
EXTENDS Integers, Sequences, FiniteSets, TLC

VARIABLES
    pc,                 \* position of the script / of extract_frames
    openable,           \* environment: cv2 can open video_path
    fps_reported,       \* environment: CAP_PROP_FPS of the source
    nframes,            \* environment: frames the source yields before end of stream
    frames_per_second,  \* argument of extract_frames (fps_extract)
    dir_existed,        \* output_folder existed when extract_frames was entered
    cap_state,          \* "none" | "open" | "released"
    cap_pos,            \* frames consumed from the source
    cap_reads,          \* calls of cap.read() made, successful or not
    fps,                \* local fps
    frame_interval,     \* local frame_interval
    frame_idx,          \* local frame_idx
    saved_idx,          \* local saved_idx
    frame,              \* local frame: the read position of the frame held, -1 for none
    dir_exists,         \* output_folder exists
    files,              \* output_folder: saved index of frame_XXXX.jpg |-> read position of the frame it holds
    write_failed,       \* saved indices whose cv2.imwrite returned False
    err,                \* exception that left extract_frames, "none" if none
    total,              \* script variable total, -1 while unbound
    frame_files,        \* script variable frame_files (file names, as character codes)
    calls               \* runs of the script so far

vars == <<pc, openable, fps_reported, nframes, frames_per_second, dir_existed,
          cap_state, cap_pos, cap_reads, fps, frame_interval, frame_idx,
          saved_idx, frame, dir_exists, files, write_failed, err, total,
          frame_files, calls>>

inputs == <<openable, fps_reported, nframes, frames_per_second, dir_existed>>
capture == <<cap_state, cap_pos, cap_reads>>
counters == <<frame_idx, saved_idx>>
output == <<dir_exists, files, write_failed>>

----------------------------------------------------------------------------
(* Bounds *)

MaxFrames == 5
MaxCalls == 2

\* Frame rates a source may report: 0, a negative value, 1/2, 2, 7/2 and 30.
FpsValues == {<<0, 1>>, <<-3, 1>>, <<1, 2>>, <<2, 1>>, <<7, 2>>, <<30, 1>>}

\* Target rates; st.number_input(min_value=1, step=1) yields integers >= 1.
Rates == {1, 2, 30}

\* One longer source: nominal rate 30, target rate 1, 90 frames.
Scenarios == {<<<<30, 1>>, 1, 90>>}

Sources == (FpsValues \X Rates \X (0..MaxFrames)) \cup Scenarios

NoFiles == [k \in {} |-> 0]

----------------------------------------------------------------------------
(* Pure functions *)

\* Python int(n / d) for d > 0: truncation toward zero.
IntTrunc(n, d) == IF n >= 0 THEN n \div d ELSE -((-n) \div d)

Max(a, b) == IF a >= b THEN a ELSE b

\* the quotient rounded up instead of truncated
FrameIntervalRoundUp(f, t) == Max(-((-f[1]) \div (f[2] * t)), 1)

\* line 31: max(int(fps / frames_per_second), 1)
FrameInterval(f, t) == Max(IntTrunc(f[1], f[2] * t), 1)

\* line 27: fps == 0
FpsIsZero(f) == f[1] = 0

\* line 41: frame_idx % frame_interval == 0
Keep(i, s) == i % s = 0

RECURSIVE Digits(_)
\* decimal digits of n >= 0, most significant first
Digits(n) == IF n < 10 THEN <<n>> ELSE Append(Digits(n \div 10), n % 10)

\* format spec 04d for n >= 0: at least 4 digits, zero-padded on the left
Format04d(n) ==
    LET d == Digits(n)
        pad == IF Len(d) >= 4 THEN <<>> ELSE [i \in 1..(4 - Len(d)) |-> 0]
    IN  [i \in 1..(Len(pad) + Len(d)) |->
            48 + (IF i <= Len(pad) THEN 0 ELSE d[i - Len(pad)])]

\* line 42: f"frame_{saved_idx:04d}.jpg", as character codes
FrameName(k) ==
    <<102, 114, 97, 109, 101, 95>> \o Format04d(k) \o <<46, 106, 112, 103>>

\* Python str <: code-point order, a proper prefix sorts first
StrLess(a, b) ==
    \E i \in 1..(Len(a) + 1) :
        /\ i <= Len(b)
        /\ \A j \in 1..(i - 1) : a[j] = b[j]
        /\ \/ i = Len(a) + 1
           \/ a[i] < b[i]

\* line 91: sorted(...) of a set of distinct names
Sorted(S) ==
    [i \in 1..Cardinality(S) |->
        CHOOSE x \in S : Cardinality({y \in S : StrLess(y, x)}) = i - 1]

\* line 91: Path(output_dir).glob("*.jpg")
Glob == {FrameName(k) : k \in DOMAIN files}

----------------------------------------------------------------------------
(* Initial state: the script is about to call extract_frames *)

Init ==
    /\ pc = "open"
    /\ openable \in BOOLEAN
    /\ \E s \in Sources :
        /\ fps_reported = s[1]
        /\ frames_per_second = s[2]
        /\ nframes = s[3]
    /\ dir_existed \in BOOLEAN
    /\ cap_state = "none"
    /\ cap_pos = 0
    /\ cap_reads = 0
    /\ fps = <<0, 1>>
    /\ frame_interval = 0
    /\ frame_idx = 0
    /\ saved_idx = 0
    /\ frame = -1
    /\ dir_exists = dir_existed
    /\ files = NoFiles
    /\ write_failed = {}
    /\ err = "none"
    /\ total = -1
    /\ frame_files = <<>>
    /\ calls = 1

----------------------------------------------------------------------------
(* extract_frames *)

\* lines 22-23, source opens
OpenOk ==
    /\ pc = "open"
    /\ openable
    /\ cap_state' = "open"
    /\ pc' = "get_fps"
    /\ UNCHANGED <<inputs, cap_pos, cap_reads, fps, frame_interval, counters,
                   frame, output, err, total, frame_files, calls>>

\* lines 22-24, source does not open
RaiseUnreadable ==
    /\ pc = "open"
    /\ ~openable
    /\ err' = "unreadable"
    /\ pc' = "raised"
    /\ UNCHANGED <<inputs, capture, fps, frame_interval, counters, frame,
                   output, total, frame_files, calls>>

\* the rate check placed after the directory is made
RaiseUnknownFpsAfterMakedirs ==
    /\ pc = "get_fps"
    /\ FpsIsZero(fps_reported)
    /\ fps' = fps_reported
    /\ dir_exists' = TRUE
    /\ err' = "unknown_fps"
    /\ pc' = "raised"
    /\ UNCHANGED <<inputs, capture, frame_interval, counters, frame, files,
                   write_failed, total, frame_files, calls>>

\* lines 26-28, the rate is zero
RaiseUnknownFps ==
    /\ pc = "get_fps"
    /\ FpsIsZero(fps_reported)
    /\ fps' = fps_reported
    /\ err' = "unknown_fps"
    /\ pc' = "raised"
    /\ UNCHANGED <<inputs, capture, frame_interval, counters, frame, output,
                   total, frame_files, calls>>

\* lines 26-31, the rate is not zero
ComputeInterval ==
    /\ pc = "get_fps"
    /\ ~FpsIsZero(fps_reported)
    /\ fps' = fps_reported
    /\ frame_interval' = FrameInterval(fps_reported, frames_per_second)
    /\ pc' = "makedirs"
    /\ UNCHANGED <<inputs, capture, counters, frame, output, err, total,
                   frame_files, calls>>

\* the directory not made
MakeDirsSkipped ==
    /\ pc = "makedirs"
    /\ dir_exists' = dir_exists
    /\ frame_idx' = 0
    /\ saved_idx' = 0
    /\ pc' = "read"
    /\ UNCHANGED <<inputs, capture, fps, frame_interval, frame, files,
                   write_failed, err, total, frame_files, calls>>

\* lines 33-35
MakeDirs ==
    /\ pc = "makedirs"
    /\ dir_exists' = TRUE
    /\ frame_idx' = 0
    /\ saved_idx' = 0
    /\ pc' = "read"
    /\ UNCHANGED <<inputs, capture, fps, frame_interval, frame, files,
                   write_failed, err, total, frame_files, calls>>

\* end of stream does not leave the loop
ReadFrameContinue ==
    /\ pc = "read"
    /\ cap_reads' = cap_reads + 1
    /\ IF cap_pos < nframes
         THEN /\ frame' = cap_pos
              /\ cap_pos' = cap_pos + 1
              /\ pc' = "select"
         ELSE /\ frame' = -1
              /\ cap_pos' = cap_pos
              /\ pc' = "read"
    /\ UNCHANGED <<inputs, cap_state, fps, frame_interval, counters, output,
                   err, total, frame_files, calls>>

\* lines 37-39
ReadFrame ==
    /\ pc = "read"
    /\ cap_reads' = cap_reads + 1
    /\ IF cap_pos < nframes
         THEN /\ frame' = cap_pos
              /\ cap_pos' = cap_pos + 1
              /\ pc' = "select"
         ELSE /\ frame' = -1
              /\ cap_pos' = cap_pos
              /\ pc' = "release"
    /\ UNCHANGED <<inputs, cap_state, fps, frame_interval, counters, output,
                   err, total, frame_files, calls>>

\* the read index not advanced for a kept frame
SaveFrameNoReadCount ==
    /\ pc = "select"
    /\ Keep(frame_idx, frame_interval)
    /\ \E written \in BOOLEAN :
        /\ files' = IF written THEN (saved_idx :> frame) @@ files ELSE files
        /\ write_failed' = IF written THEN write_failed
                                      ELSE write_failed \cup {saved_idx}
    /\ saved_idx' = saved_idx + 1
    /\ frame_idx' = frame_idx
    /\ pc' = "read"
    /\ UNCHANGED <<inputs, capture, fps, frame_interval, frame, dir_exists,
                   err, total, frame_files, calls>>

\* lines 41-46, the frame is kept and cv2.imwrite returns (True or False)
SaveFrame ==
    /\ pc = "select"
    /\ Keep(frame_idx, frame_interval)
    /\ \E written \in BOOLEAN :
        /\ files' = IF written THEN (saved_idx :> frame) @@ files ELSE files
        /\ write_failed' = IF written THEN write_failed
                                      ELSE write_failed \cup {saved_idx}
    /\ saved_idx' = saved_idx + 1
    /\ frame_idx' = frame_idx + 1
    /\ pc' = "read"
    /\ UNCHANGED <<inputs, capture, fps, frame_interval, frame, dir_exists,
                   err, total, frame_files, calls>>

\* lines 41-43, the frame is kept and cv2.imwrite raises
WriteRaises ==
    /\ pc = "select"
    /\ Keep(frame_idx, frame_interval)
    /\ err' = "write_error"
    /\ pc' = "raised"
    /\ UNCHANGED <<inputs, capture, fps, frame_interval, counters, frame,
                   output, total, frame_files, calls>>

\* lines 41 and 46, the frame is skipped
SkipFrame ==
    /\ pc = "select"
    /\ ~Keep(frame_idx, frame_interval)
    /\ frame_idx' = frame_idx + 1
    /\ pc' = "read"
    /\ UNCHANGED <<inputs, capture, fps, frame_interval, saved_idx, frame,
                   output, err, total, frame_files, calls>>

\* lines 48-49 and the assignment of line 84
ReleaseAndReturn ==
    /\ pc = "release"
    /\ cap_state' = "released"
    /\ total' = saved_idx
    /\ pc' = "returned"
    /\ UNCHANGED <<inputs, cap_pos, cap_reads, fps, frame_interval, counters,
                   frame, output, err, frame_files, calls>>

----------------------------------------------------------------------------
(* The script around the call *)

\* lines 85-87
ShowError ==
    /\ pc = "raised"
    /\ total' = 0
    /\ pc' = "failed"
    /\ UNCHANGED <<inputs, capture, fps, frame_interval, counters, frame,
                   output, err, frame_files, calls>>

\* lines 89-96
Preview ==
    /\ pc = "returned"
    /\ total # 0
    /\ frame_files' = Sorted(Glob)
    /\ pc' = "previewed"
    /\ UNCHANGED <<inputs, capture, fps, frame_interval, counters, frame,
                   output, err, total, calls>>

ScriptDone ==
    \/ pc \in {"failed", "previewed"}
    \/ pc = "returned" /\ total = 0

\* lines 72-84: the next run of the script, with a new upload, a new rate and
\* a new output directory; the locals of the finished call are gone, the model
\* keeps the old counter values until line 35 assigns them.
Rerun ==
    /\ ScriptDone
    /\ calls < MaxCalls
    /\ calls' = calls + 1
    /\ openable' \in BOOLEAN
    /\ \E s \in Sources :
        /\ fps_reported' = s[1]
        /\ frames_per_second' = s[2]
        /\ nframes' = s[3]
    /\ dir_existed' \in BOOLEAN
    /\ dir_exists' = dir_existed'
    /\ cap_state' = "none"
    /\ cap_pos' = 0
    /\ cap_reads' = 0
    /\ fps' = <<0, 1>>
    /\ frame_interval' = 0
    /\ frame' = -1
    /\ files' = NoFiles
    /\ write_failed' = {}
    /\ err' = "none"
    /\ total' = -1
    /\ frame_files' = <<>>
    /\ pc' = "open"
    /\ UNCHANGED counters

Step ==
    \/ OpenOk
    \/ RaiseUnreadable
    \/ RaiseUnknownFps
    \/ ComputeInterval
    \/ MakeDirs
    \/ ReadFrame
    \/ SaveFrame
    \/ WriteRaises
    \/ SkipFrame
    \/ ReleaseAndReturn
    \/ ShowError
    \/ Preview

Next == Step \/ Rerun

Spec == Init /\ [][Next]_vars

\* The interpreter runs the script to its end: a step that is possible is taken.
FairSpec == Spec /\ WF_vars(Step)

----------------------------------------------------------------------------
(* The naming and listing functions on longer runs *)

\* Saved indices around the places where the number of digits changes.
NameIndices == {0, 1, 9, 10, 999, 1000, 9999, 10000, 10001}

\* The script has just returned from a call that kept every frame of a source
\* (stride 1); the output directory holds the files with the indices in S, the
\* writes of the other indices having returned False.
InitNames ==
    \E S \in SUBSET NameIndices :
        /\ Cardinality(S) \in 1..3
        /\ LET n == (CHOOSE k \in S : \A j \in S : j <= k) + 1
           IN  /\ nframes = n
               /\ cap_pos = n
               /\ cap_reads = n + 1
               /\ frame_idx = n
               /\ saved_idx = n
               /\ total = n
               /\ write_failed = (0..(n - 1)) \ S
        /\ files = [k \in S |-> k]
        /\ pc = "returned"
        /\ openable = TRUE
        /\ fps_reported = <<30, 1>>
        /\ frames_per_second = 30
        /\ dir_existed = TRUE
        /\ cap_state = "released"
        /\ fps = <<30, 1>>
        /\ frame_interval = 1
        /\ frame = -1
        /\ dir_exists = TRUE
        /\ err = "none"
        /\ frame_files = <<>>
        /\ calls = 1

NamesSpec == InitNames /\ [][Preview]_vars

----------------------------------------------------------------------------
(* Properties *)

Returned == pc \in {"returned", "previewed"}
Raised == pc \in {"raised", "failed"}

\* ceil(n / s) for n >= 0, s >= 1
CeilDiv(n, s) == (n + s - 1) \div s

\* C1: for a source with nominal rate R > 0, target rate T >= 1 and N frames,
\* a call that returns used stride max(floor(R/T), 1) and returned
\* ceil(N / stride) (0 when N = 0); when T >= R the stride is 1 and the
\* returned count is N.
C1_CountMatchesStride ==
    (Returned /\ fps_reported[1] > 0) =>
        LET stride == Max(fps_reported[1] \div (fps_reported[2] * frames_per_second), 1)
        IN  /\ frame_interval = stride
            /\ total = IF nframes > 0 THEN CeilDiv(nframes, stride) ELSE 0
            /\ (frames_per_second * fps_reported[2] >= fps_reported[1]) =>
                   (stride = 1 /\ total = nframes)

C1_Witness ==
    /\ pc = "returned"
    /\ fps_reported = <<7, 2>>
    /\ frames_per_second = 1
    /\ nframes = 5
    /\ frame_interval = 3
    /\ total = 2

\* C2: once the source has been opened, the handle is released before
\* extract_frames leaves, on the normal return and on every failure.
C2_ReleasedOnEveryExit ==
    (Returned \/ Raised) => cap_state # "open"

\* C3: when extract_frames fails with the unreadable-source error or the
\* unknown-frame-rate error, no frame has been read, the output directory has
\* not been created by the call and no file has been written.
C3_NoOutputOnEarlyFailure ==
    (Raised /\ err \in {"unreadable", "unknown_fps"}) =>
        /\ cap_reads = 0
        /\ cap_pos = 0
        /\ dir_exists = dir_existed
        /\ files = NoFiles
        /\ write_failed = {}

C3_Witness ==
    /\ pc = "raised"
    /\ err = "unknown_fps"
    /\ cap_state = "open"
    /\ ~dir_existed
    /\ ~dir_exists

\* the names of the files of the directory, in the order of their saved indices
TemporalOrder ==
    LET S == DOMAIN files
    IN  [i \in 1..Cardinality(S) |->
            FrameName(CHOOSE k \in S : Cardinality({j \in S : j < k}) = i - 1)]

\* C4: the names written by one call, sorted as strings, are in the order of
\* extraction: for saved indices a < b the name of a sorts strictly before the
\* name of b, for every number of saved frames.
C4_LexicalOrderIsTemporal ==
    /\ \A a, b \in DOMAIN files :
           a < b => StrLess(FrameName(a), FrameName(b))
    /\ pc = "previewed" => frame_files = TemporalOrder

\* C5: if writing a kept frame fails, the call does not return normally, so no
\* returned count includes a frame whose write failed.
C5_WriteFailurePropagates ==
    Returned => write_failed = {}

\* C6: a source that opens, reports a nonzero rate and yields no frame: no
\* error is raised, 0 is returned, the output directory exists and is empty.
C6_ZeroFrames ==
    (openable /\ ~FpsIsZero(fps_reported) /\ nframes = 0) =>
        /\ err = "none"
        /\ ~Raised
        /\ Returned => (total = 0 /\ dir_exists /\ files = NoFiles)

C6_Witness ==
    /\ pc = "returned"
    /\ nframes = 0
    /\ ~dir_existed
    /\ dir_exists
    /\ total = 0
    /\ cap_reads = 1

\* C7: after the source opens, a reported rate that is zero or not usable
\* (negative) makes the call fail with the unknown-frame-rate error; the call
\* never goes on to create the directory or read frames with such a rate.
C7_UnusableRateRejected ==
    (fps_reported[1] <= 0 /\ pc \notin {"open", "get_fps"} /\ cap_state # "none") =>
        /\ Raised
        /\ err = "unknown_fps"
        /\ cap_reads = 0
        /\ dir_exists = dir_existed

\* C8: in a call that returns, with stride s over N frames, the directory holds
\* exactly the files with saved indices 0 .. count-1, the file with index k
\* holds the frame read at position k*s, and the frames held are exactly those
\* at positions i with i mod s = 0.
C8_KeptFramesAtStride ==
    Returned =>
        /\ DOMAIN files = 0..(total - 1)
        /\ \A k \in DOMAIN files : files[k] = k * frame_interval
        /\ {files[k] : k \in DOMAIN files} =
               {i \in 0..(nframes - 1) : i % frame_interval = 0}

\* The statement of C8 for the calls in which every cv2.imwrite wrote its file.
KeptFramesWhenWritesSucceed ==
    (Returned /\ write_failed = {}) =>
        /\ DOMAIN files = 0..(total - 1)
        /\ \A k \in DOMAIN files : files[k] = k * frame_interval
        /\ {files[k] : k \in DOMAIN files} =
               {i \in 0..(nframes - 1) : i % frame_interval = 0}

\* C9: both counters are 0 when the loop is entered; an iteration of the loop
\* raises the read index by exactly 1, kept or skipped, and the saved index by
\* exactly 1 when the frame is kept and by 0 when it is skipped; inside the
\* loop neither counter decreases, and at each read the read index is the
\* number of successful reads so far.
C9_CountersStep ==
    [][ /\ (pc = "makedirs" /\ pc' = "read") =>
               (frame_idx' = 0 /\ saved_idx' = 0)
        /\ (pc = "select" /\ pc' = "read") =>
               /\ frame_idx' = frame_idx + 1
               /\ saved_idx' = saved_idx + (IF frame % frame_interval = 0 THEN 1 ELSE 0)
        /\ (pc \in {"read", "select"}) =>
               (frame_idx' >= frame_idx /\ saved_idx' >= saved_idx)
        /\ (pc' = "read") => (frame_idx' = cap_pos') ]_vars

C9_Witness ==
    /\ pc = "read"
    /\ calls = 2
    /\ frame_interval = 2
    /\ frame_idx = 4
    /\ saved_idx = 2

\* C10: a source that yields N frames and then end of stream: the first
\* unsuccessful read leaves the loop without an error, a call that returns has
\* made exactly N successful reads and one unsuccessful read and returns the
\* saved count, and a call that has entered the loop eventually ends.
C10_Terminates ==
    /\ [][ (pc = "read" /\ cap_pos = nframes) =>
               (pc' = "release" /\ err' = "none") ]_vars
    /\ [](pc = "returned" =>
              /\ cap_pos = nframes
              /\ cap_reads = nframes + 1
              /\ frame_idx = nframes
              /\ total = saved_idx
              /\ err = "none")
    /\ (pc = "read") ~> (pc \in {"returned", "raised"})

C10_Witness ==
    /\ pc = "returned"
    /\ nframes = 5
    /\ cap_reads = 6
    /\ frame_interval = 2
    /\ total = 3

====
